---- MODULE Spec2Model ----
(***************************************************************************)
(* Runtime semantics of the Red reducer builder (lib/index.js, shipped     *)
(* here in src/lib/index.d.ts lines 155-298).                              *)
(*                                                                         *)
(* A Red value bundles an initial state, a handlers object and the derived *)
(* action creators.  The composition methods return new Red values; the    *)
(* reducer is the transition function handed to the host.                  *)
(***************************************************************************)
EXTENDS Integers, Sequences, FiniteSets, TLC

VARIABLES
    cur,      \* the Red value the application has built so far
    mounted,  \* TRUE once cur.reducer has been handed to the host
    state,    \* the host's current state (Undefined before the first reduce)
    ops,      \* number of composition calls made
    steps,    \* number of reducer calls made
    last,     \* the last call: its name, receiver, arguments and result
    origin,   \* the composition call that returned cur: its name and arguments
    heap      \* the objects allocated so far, where objects are followed by
              \* reference (SpecHeap); empty where values stand for them

vars == <<cur, mounted, state, ops, steps, last, origin, heap>>

\* ---------------------------------------------------------------- bounds

\* Composition calls made on top of the starting Red value.
MaxOps == 2
\* Reducer calls made by the host after mounting.
MaxSteps == 2

\* ------------------------------------------------------ JavaScript values
\* Every value is a tagged tuple, so that values of different types can be
\* compared.  Objects are maps from property names to values; property
\* order is kept out of the object and modelled where the code iterates
\* (Entries, for Object.entries(reds)).

Undefined == <<"undefined">>
NaN == <<"NaN">>
Num(n) == <<"number", n>>
Str(s) == <<"string", s>>
Obj(f) == <<"object", f>>
\* A user function: d describes what it computes (see ApplyHandler).
Fn(d) == <<"function", d>>
\* A built-in method of Object.prototype.
Native(name) == <<"native", name>>
\* Object.prototype itself: an object, truthy, not callable.
ObjectPrototype == <<"prototype">>
\* An abrupt completion: a TypeError propagating out of the call.
Throw == <<"throw", "TypeError">>

Tag(v) == v[1]
IsObj(v) == Tag(v) = "object"
IsThrow(v) == Tag(v) = "throw"

NoProps == [k \in {} |-> Undefined]
EmptyObj == Obj(NoProps)

\* What Object.prototype.toString returns for a plain object.
ObjectTag == "[object Object]"

\* The characters of the strings that occur: "", the one-character
\* strings used as payloads, and ObjectTag.
Chars(s) ==
    CASE s = "" -> <<>>
      [] s = ObjectTag ->
            <<"[", "o", "b", "j", "e", "c", "t", " ",
              "O", "b", "j", "e", "c", "t", "]">>
      [] OTHER -> <<s>>

\* The canonical numeric property names "0", "1", ... in ascending order.
IndexKeys ==
    <<"0", "1", "2", "3", "4", "5", "6", "7", "8", "9",
      "10", "11", "12", "13", "14">>

IsIndexKey(k) == \E i \in 1..Len(IndexKeys) : IndexKeys[i] = k
KeyIndex(k) == CHOOSE i \in 1..Len(IndexKeys) : IndexKeys[i] = k

\* The own enumerable properties an object spread copies from v: those of
\* an object, the indexed characters of a string, nothing for undefined,
\* numbers, NaN and functions.
OwnProps(v) ==
    CASE Tag(v) = "object" -> v[2]
      [] Tag(v) = "string" ->
            LET cs == Chars(v[2])
            IN  [k \in {IndexKeys[i] : i \in 1..Len(cs)} |-> Str(cs[KeyIndex(k)])]
      [] OTHER -> NoProps

Keys(v) == DOMAIN OwnProps(v)

\* A spread in which the first operand's fields win.
SpreadLeftWins(a, b) ==
    LET pa == OwnProps(a)
        pb == OwnProps(b)
    IN  Obj([k \in DOMAIN pa \cup DOMAIN pb |->
                IF k \in DOMAIN pa THEN pa[k] ELSE pb[k]])

\* { ...a, ...b }: the fields of a overwritten by those of b.
Spread(a, b) ==
    LET pa == OwnProps(a)
        pb == OwnProps(b)
    IN  Obj([k \in DOMAIN pa \cup DOMAIN pb |->
                IF k \in DOMAIN pb THEN pb[k] ELSE pa[k]])

\* The members every plain object inherits from Object.prototype that the
\* model covers (the others: toLocaleString, hasOwnProperty, isPrototypeOf,
\* propertyIsEnumerable, __defineGetter__, ...).
NativeNames == {"toString", "valueOf", "constructor"}

ProtoGet(k) ==
    IF k \in NativeNames THEN Native(k)
    ELSE IF k = "__proto__" THEN ObjectPrototype
    ELSE Undefined

\* v[k]: an own property, else what the prototype chain gives; reading a
\* property of undefined throws.
Get(v, k) ==
    CASE Tag(v) = "undefined" -> Throw
      [] Tag(v) = "object" ->
            IF k \in DOMAIN v[2] THEN v[2][k] ELSE ProtoGet(k)
      [] OTHER -> Undefined

\* The condition of `x ? a : b`.
Truthy(v) ==
    CASE Tag(v) = "undefined" -> FALSE
      [] Tag(v) = "NaN" -> FALSE
      [] Tag(v) = "number" -> v[2] # 0
      [] Tag(v) = "string" -> v[2] # ""
      [] OTHER -> TRUE

\* v + 1
PlusOne(v) ==
    CASE Tag(v) = "number" -> Num(v[2] + 1)
      [] Tag(v) = "string" -> Str(v[2] \o "1")
      [] OTHER -> NaN

\* v - 1.  The strings that occur are "" (which converts to 0) and
\* strings that are no numerals (which convert to NaN).
MinusOne(v) ==
    CASE Tag(v) = "number" -> Num(v[2] - 1)
      [] Tag(v) = "string" -> IF v[2] = "" THEN Num(0 - 1) ELSE NaN
      [] OTHER -> NaN

\* ------------------------------------------------------------- handlers
\* The handler functions of the documentation's examples, as descriptors:
\*   <<"inc", f>>     s => ({ [f]: s[f] + 1 })            (increment)
\*   <<"dec", f>>     s => ({ [f]: s[f] - 1 })            (decrement)
\*   <<"setArg", f>>  (s, v) => ({ [f]: v })              (setInput)
\*   <<"ns", key, f>> the wrapper combine builds around handler f
\*   <<"creator", t>> (...payload) => ({ type: t, payload })   (action creator)

RECURSIVE ApplyHandler(_, _)

\* The wrapper combine puts around handler f of the Red under key:
\* (s, ...p) => ({ [key]: { ...s[key], ...f(s[key], ...p) } })
\* (the same wrapper handing f the whole state instead of s[key])
NamespacedCallWholeState(key, f, args) ==
    LET s == IF Len(args) >= 1 THEN args[1] ELSE Undefined
        sub == Get(s, key)
        r == IF IsThrow(sub) THEN Throw
             ELSE IF Tag(f) = "function"
                  THEN ApplyHandler(f[2], args)
                  ELSE Throw
    IN  IF IsThrow(r) THEN Throw ELSE Obj(key :> Spread(sub, r))

\* The wrapper as the code has it.
NamespacedCall(key, f, args) ==
    LET s == IF Len(args) >= 1 THEN args[1] ELSE Undefined
        sub == Get(s, key)
        r == IF IsThrow(sub) THEN Throw
             ELSE IF Tag(f) = "function"
                  THEN ApplyHandler(f[2], <<sub>> \o SubSeq(args, 2, Len(args)))
                  ELSE Throw
    IN  IF IsThrow(r) THEN Throw ELSE Obj(key :> Spread(sub, r))

\* d(...args), where args[1] is the state the handler is given.
ApplyHandler(d, args) ==
    LET s == IF Len(args) >= 1 THEN args[1] ELSE Undefined
    IN  CASE d[1] = "inc" ->
                LET v == Get(s, d[2])
                IN  IF IsThrow(v) THEN Throw ELSE Obj(d[2] :> PlusOne(v))
          [] d[1] = "dec" ->
                LET v == Get(s, d[2])
                IN  IF IsThrow(v) THEN Throw ELSE Obj(d[2] :> MinusOne(v))
          [] d[1] = "setArg" ->
                Obj(d[2] :> (IF Len(args) >= 2 THEN args[2] ELSE Undefined))
          [] d[1] = "ns" -> NamespacedCall(d[2], d[3], args)
          [] d[1] = "creator" ->
                Obj([type |-> Str(d[2]), payload |-> <<"array", args>>])

\* A built-in of Object.prototype called as a method of `this`.
CallNative(name, this, args) ==
    CASE name = "toString" -> Str(ObjectTag)
      [] name = "valueOf" -> this
      [] name = "constructor" ->
            \* Object(value): the value itself when it is an object, else
            \* a wrapper object with the value's own properties.
            IF Len(args) >= 1 /\ IsObj(args[1]) THEN args[1]
            ELSE IF Len(args) >= 1 THEN Obj(OwnProps(args[1]))
            ELSE EmptyObj

\* this.f(...args) for the value f found under a property of `this`.
Call(f, this, args) ==
    CASE Tag(f) = "function" -> ApplyHandler(f[2], args)
      [] Tag(f) = "native" -> CallNative(f[2], this, args)
      [] OTHER -> Throw

\* ------------------------------------------------------------ class Red

\* (a constructor deriving the action creators from the keys of initial)
RedActionsOfInitial(initial, handlers) ==
    [initial |-> initial,
     handlers |-> handlers,
     actions |-> Obj([type \in Keys(initial) |-> Fn(<<"creator", type>>)])]

\* new Red(initial, handlers): the constructor stores both and derives one
\* action creator per own key of handlers.
Red(initial, handlers) ==
    [initial |-> initial,
     handlers |-> handlers,
     actions |-> Obj([type \in Keys(handlers) |-> Fn(<<"creator", type>>)])]

\* The exported root value.
red == Red(EmptyObj, EmptyObj)

\* (a reducer that returns the handler's result without the state's fields)
reducerPartialOnly(this, st0, action) ==
    LET st == IF st0 = Undefined THEN this.initial ELSE st0
        h == Get(this.handlers, action.type)
        part == IF Truthy(h)
                THEN Call(h, this.handlers, <<st>> \o action.payload)
                ELSE EmptyObj
    IN  IF IsThrow(part) THEN Throw ELSE Spread(EmptyObj, part)

\* this.reducer(state, action), action = [type |-> string, payload |-> args]:
\* the handler is looked up with this.handlers[action.type] and called when
\* the value found is truthy.  The result is the new state, or Throw when
\* the call raises.
reducer(this, st0, action) ==
    LET st == IF st0 = Undefined THEN this.initial ELSE st0
        h == Get(this.handlers, action.type)
        part == IF Truthy(h)
                THEN Call(h, this.handlers, <<st>> \o action.payload)
                ELSE EmptyObj
    IN  IF IsThrow(part) THEN Throw ELSE Spread(st, part)

\* (a handle in which the receiver's handlers win a collision)
handleKeepsOld(this, handlers) ==
    Red(this.initial, Spread(handlers, this.handlers))

\* this.handle(handlers)
handle(this, handlers) ==
    Red(this.initial, Spread(this.handlers, handlers))

\* this.withActions(handlers)
withActions(this, handlers) == handle(this, handlers)

\* (a withState in which the receiver's fields win a collision)
withStateKeepsOld(this, initial) ==
    Red(Spread(initial, this.initial), this.handlers)

\* (a withState that drops the receiver's initial)
withStateReplaces(this, initial) ==
    Red(Spread(EmptyObj, initial), this.handlers)

\* this.withState(initial)
withState(this, initial) ==
    Red(Spread(this.initial, initial), this.handlers)

\* (a merge with the operands' roles exchanged)
mergeLeftWins(this, other) ==
    handle(withState(other, this.initial), this.handlers)

\* (a merge that returns other as it is when the receiver has no handlers)
mergeShortcut(this, other) ==
    IF Keys(this.handlers) = {} THEN other
    ELSE handle(withState(this, other.initial), other.handlers)

\* this.merge(other)
merge(this, other) ==
    handle(withState(this, other.initial), other.handlers)

\* (entries taken in insertion order whatever the keys)
EntriesAsInserted(reds) == reds

\* Object.entries(reds): reds is given as the sequence of its <<key, Red>>
\* pairs in insertion order; the canonical numeric keys come first, in
\* ascending numeric order, then the other keys in insertion order.
Entries(reds) ==
    SortSeq(SelectSeq(reds, LAMBDA e : IsIndexKey(e[1])),
            LAMBDA x, y : KeyIndex(x[1]) < KeyIndex(y[1]))
    \o SelectSeq(reds, LAMBDA e : ~IsIndexKey(e[1]))

\* Object.assign(target, source): every own enumerable property of source
\* is set on target.  Setting goes through setters: a key "__proto__"
\* that target does not own reaches Object.prototype's setter and creates
\* no own property.
Assign(target, source) ==
    LET pt == OwnProps(target)
        ps == OwnProps(source)
        set == {k \in DOMAIN ps : k # "__proto__" \/ k \in DOMAIN pt}
    IN  Obj([k \in DOMAIN pt \cup set |-> IF k \in set THEN ps[k] ELSE pt[k]])

\* The inner reduce of combine: every handler f of r wrapped to work on
\* the sub-state under key, each assigned to the accumulator {} under its
\* type (the types are distinct, so the assignments commute).
Namespaced(key, handlers) ==
    Assign(EmptyObj,
           Obj([type \in Keys(handlers) |->
                   Fn(<<"ns", key, OwnProps(handlers)[type]>>)]))

RECURSIVE combineFromFlat(_, _)
\* (a combine that spreads r.initial into the state instead of nesting it)
combineFromFlat(acc, es) ==
    IF es = <<>> THEN acc
    ELSE LET key == es[1][1]
             r == es[1][2]
         IN  combineFromFlat(
                 handle(withState(acc, r.initial), Namespaced(key, r.handlers)),
                 Tail(es))

RECURSIVE combineFromLastState(_, _)
\* (a combine whose accumulator keeps only the state of the last entry)
combineFromLastState(acc, es) ==
    IF es = <<>> THEN acc
    ELSE LET key == es[1][1]
             r == es[1][2]
         IN  combineFromLastState(
                 handle(Red(Obj(key :> r.initial), acc.handlers),
                        Namespaced(key, r.handlers)),
                 Tail(es))

RECURSIVE combineFrom(_, _)
\* The outer reduce of combine over the entries es, from accumulator acc.
combineFrom(acc, es) ==
    IF es = <<>> THEN acc
    ELSE LET key == es[1][1]
             r == es[1][2]
         IN  combineFrom(
                 handle(withState(acc, Obj(key :> r.initial)),
                        Namespaced(key, r.handlers)),
                 Tail(es))

\* The exported combine(reds).
combine(reds) == combineFrom(Red(EmptyObj, EmptyObj), Entries(reds))

\* (a this.combine in which the receiver wins the collisions)
Red_combineReceiverWins(this, reds) == merge(combine(reds), this)

\* The method this.combine(reds).
Red_combine(this, reds) == merge(this, combine(reds))

\* The object { type, payload }.
ActionObject(type, payload) ==
    Obj([type |-> Str(type), payload |-> <<"array", payload>>])

\* The action the reducer reads from an action object: action.type and
\* action.payload.
ActionOf(a) ==
    [type |-> OwnProps(a)["type"][2], payload |-> OwnProps(a)["payload"][2]]

\* (a makeDispatchers that calls dispatch once per kind while building)
makeDispatchersEager(this) ==
    [res |-> Obj([type \in Keys(this.actions) |-> Fn(<<"dispatcher", type>>)]),
     calls |-> IF Keys(this.actions) = {} THEN <<>>
               ELSE <<ActionObject(CHOOSE t \in Keys(this.actions) : TRUE, <<>>)>>]

\* this.makeDispatchers(dispatch): one function per key of this.actions,
\* each closing over dispatch and its key.  res is the object returned,
\* calls the arguments of the calls of dispatch made meanwhile.
makeDispatchers(this) ==
    [res |-> Obj([type \in Keys(this.actions) |-> Fn(<<"dispatcher", type>>)]),
     calls |-> <<>>]

\* Calling the dispatcher (...payload) => dispatch({ type, payload }):
\* calls are the arguments of the calls of dispatch it makes.
CallDispatcher(d, payload) ==
    [calls |-> <<ActionObject(d[2], payload)>>]

\* --------------------------------------------------------------- inputs
\* The Red values of the documentation's examples.
inputApp ==
    handle(withState(red, Obj("input" :> Str(""))),
           Obj("setInput" :> Fn(<<"setArg", "input">>)))

counterApp ==
    handle(withState(red, Obj("count" :> Num(0))),
           Obj("increment" :> Fn(<<"inc", "count">>)))

\* The example of withState's documentation: state, no handlers yet.
stateOnly == withState(red, Obj("count" :> Num(0) @@ "input" :> Str("")))

\* The example of handle's documentation.
app ==
    handle(stateOnly,
           Obj("setInput" :> Fn(<<"setArg", "input">>)
               @@ "increment" :> Fn(<<"inc", "count">>)))

\* A Red that disagrees with counterApp on its field and on its kind.
countdownApp ==
    handle(withState(red, Obj("count" :> Num(1))),
           Obj("increment" :> Fn(<<"dec", "count">>)))

\* Arguments of withState.
StatePartials ==
    { Obj("count" :> Num(1)),
      Obj("count" :> Num(0) @@ "input" :> Str("a")) }

\* Arguments of handle and withActions.
HandlerMaps ==
    { Obj("increment" :> Fn(<<"inc", "count">>)),
      Obj("increment" :> Fn(<<"dec", "count">>)),
      Obj("setInput" :> Fn(<<"setArg", "input">>)
          @@ "decrement" :> Fn(<<"dec", "count">>)) }

\* Arguments of merge: the root, the Reds above and the value built so far.
Operands(c) ==
    {red, stateOnly, inputApp, counterApp, app, countdownApp, c}

\* Arguments of combine: the documented example, one with a numeric key
\* inserted last, one nesting the value built so far, one registering
\* the same kinds under two namespaces, and one registering a kind under a
\* namespace and under a numeric key inserted after it.
NamedReds(c) ==
    { << <<"ui", inputApp>>, <<"counter", counterApp>> >>,
      << <<"counter", counterApp>>, <<"1", inputApp>> >>,
      << <<"app", c>> >>,
      << <<"x", counterApp>>, <<"y", counterApp>> >>,
      << <<"counter", countdownApp>>, <<"1", counterApp>> >> }

\* Argument lists given to action creators and dispatchers.
Payloads == { <<>>, <<Str("b")>>, <<Num(1), Str("a")>> }

\* The actions the host dispatches: registered kinds, an unknown kind, and
\* kinds that name members of Object.prototype.
Dispatched ==
    { [type |-> "increment", payload |-> <<>>],
      [type |-> "decrement", payload |-> <<>>],
      [type |-> "setInput", payload |-> <<Str("b")>>],
      [type |-> "__unknown__", payload |-> <<>>],
      [type |-> "toString", payload |-> <<>>],
      [type |-> "valueOf", payload |-> <<>>],
      [type |-> "constructor", payload |-> <<>>],
      [type |-> "__proto__", payload |-> <<>>] }

\* -------------------------------------------------------- state machine

Call0 == [op |-> "new", this |-> red, arg |-> <<>>, res |-> red]

Init ==
    /\ cur = red
    /\ mounted = FALSE
    /\ state = Undefined
    /\ ops = 0
    /\ steps = 0
    /\ last = Call0
    /\ origin = [op |-> Call0.op, arg |-> Call0.arg]
    /\ heap = <<>>

\* cur = this.<op>(arg), or cur = <op>(arg) for the exported combine,
\* which has no receiver.
Composed(op, this, arg, res) ==
    /\ ~mounted
    /\ ops < MaxOps
    /\ cur' = res
    /\ ops' = ops + 1
    /\ last' = [op |-> op, this |-> this, arg |-> arg, res |-> res]
    /\ origin' = [op |-> op, arg |-> arg]
    /\ UNCHANGED <<mounted, state, steps, heap>>

WithState ==
    \E p \in StatePartials : Composed("withState", cur, p, withState(cur, p))

Handle ==
    \E h \in HandlerMaps : Composed("handle", cur, h, handle(cur, h))

WithActions ==
    \E h \in HandlerMaps : Composed("withActions", cur, h, withActions(cur, h))

Merge ==
    \E o \in Operands(cur) : Composed("merge", cur, o, merge(cur, o))

Combine ==
    \E r \in NamedReds(cur) : Composed("combine", Undefined, r, combine(r))

RedCombine ==
    \E r \in NamedReds(cur) : Composed("this.combine", cur, r, Red_combine(cur, r))

\* The host takes cur.reducer and its first state: cur.initial (useHook),
\* or undefined, which the reducer's default parameter replaces.
Mount ==
    /\ ~mounted
    /\ mounted' = TRUE
    /\ \E s0 \in {cur.initial, Undefined} : state' = s0
    /\ last' = [op |-> "mount", this |-> cur, arg |-> <<>>, res |-> cur]
    /\ UNCHANGED <<cur, ops, steps, origin, heap>>

\* state = cur.reducer(state, action); a call that throws leaves the
\* host's state as it was.
Reduce ==
    /\ mounted
    /\ steps < MaxSteps
    /\ \E action \in Dispatched :
          LET res == reducer(cur, state, action)
          IN  /\ state' = IF IsThrow(res) THEN state ELSE res
              /\ last' = [op |-> "reducer", this |-> cur,
                          arg |-> <<state, action>>, res |-> res]
    /\ steps' = steps + 1
    /\ UNCHANGED <<cur, mounted, ops, origin, heap>>

Next ==
    \/ WithState
    \/ Handle
    \/ WithActions
    \/ Merge
    \/ Combine
    \/ RedCombine
    \/ Mount
    \/ Reduce

Spec == Init /\ [][Next]_vars

\* const [state, dispatchers] = cur.useHook(useReducer): the host's state
\* starts as cur.initial and the dispatchers are built around its dispatch.
UseHook ==
    /\ ~mounted
    /\ mounted' = TRUE
    /\ state' = cur.initial
    /\ LET made == makeDispatchers(cur)
       IN  last' = [op |-> "useHook", this |-> cur, arg |-> <<>>,
                    res |-> <<cur.initial, made.res>>, calls |-> made.calls]
    /\ UNCHANGED <<cur, ops, steps, origin, heap>>

RECURSIVE Dispatch(_, _, _)
\* The host's dispatch, called once per element of calls: each call runs
\* the reducer on the state; a call that throws leaves the state.
Dispatch(b, s, calls) ==
    IF calls = <<>> THEN s
    ELSE LET res == reducer(b, s, ActionOf(calls[1]))
         IN  Dispatch(b, IF IsThrow(res) THEN s ELSE res, Tail(calls))

\* dispatchers[kind](...payload), with the dispatchers of the last render.
Dispatcher ==
    /\ mounted
    /\ steps < MaxSteps
    /\ LET dispatchers == makeDispatchers(cur).res
       IN  \E kind \in Keys(dispatchers) :
             \E payload \in Payloads :
                LET called == CallDispatcher(OwnProps(dispatchers)[kind][2], payload)
                IN  /\ state' = Dispatch(cur, state, called.calls)
                    /\ last' = [op |-> "dispatcher", this |-> cur,
                                arg |-> <<kind, payload>>, res |-> Undefined,
                                calls |-> called.calls, given |-> state]
    /\ steps' = steps + 1
    /\ UNCHANGED <<cur, mounted, ops, origin, heap>>

\* The application drives the reducer through useHook's dispatchers only.
NextHook ==
    \/ WithState
    \/ Handle
    \/ WithActions
    \/ Merge
    \/ Combine
    \/ RedCombine
    \/ UseHook
    \/ Dispatcher

SpecHook == Init /\ [][NextHook]_vars

\* ------------------------------------------------- objects by reference
\* The same program with object identity: heap[a] holds the contents of
\* the object at address a (an Obj whose fields hold primitives, functions
\* or references, or an array), and a variable holds a reference.  The
\* operations below allocate and write where the code does.

Ref(a) == <<"ref", a>>
IsRef(v) == Tag(v) = "ref"

\* What v denotes in heap h: the contents of the object it refers to, or
\* the primitive it is.
At(h, v) == IF IsRef(v) THEN h[v[2]] ELSE v

\* An object literal, array literal or spread expression: a new object.
Alloc(h, contents) == [heap |-> Append(h, contents), val |-> Ref(Len(h) + 1)]

\* An abrupt completion.
Thrown(h) == [heap |-> h, val |-> Throw]

\* The value, with every reference replaced by what it refers to.
RECURSIVE Deref(_, _)
Deref(h, v) ==
    IF ~IsRef(v) THEN v
    ELSE LET o == h[v[2]]
         IN  IF IsObj(o)
             THEN Obj([k \in Keys(o) |-> Deref(h, OwnProps(o)[k])])
             ELSE <<"array", [i \in DOMAIN o[2] |-> Deref(h, o[2][i])]>>

\* The Red value an instance denotes.
RedOf(h, r) ==
    LET inst == OwnProps(h[r[2]])
    IN  [initial |-> Deref(h, inst["initial"]),
         handlers |-> Deref(h, inst["handlers"]),
         actions |-> Deref(h, inst["actions"])]

\* Op applied to the value of v, which is evaluated once.
Bind(v, Op(_)) == CHOOSE r \in {Op(x) : x \in {v}} : TRUE

\* this.f(...args): the handlers of the examples return a new object
\* literal; the wrapper of combine a new object holding a new spread; the
\* built-ins return a string, `this`, or their argument itself.
RECURSIVE CallH(_, _, _, _)
CallH(h, f, this, args) ==
    LET s == IF Len(args) >= 1 THEN args[1] ELSE Undefined
        rest == SubSeq(args, 2, Len(args))
    IN  CASE Tag(f) = "native" /\ f[2] = "toString" ->
                [heap |-> h, val |-> Str(ObjectTag)]
          [] Tag(f) = "native" /\ f[2] = "valueOf" ->
                [heap |-> h, val |-> this]
          [] Tag(f) = "native" /\ f[2] = "constructor" ->
                IF IsRef(s) THEN [heap |-> h, val |-> s]
                ELSE Alloc(h, Obj(OwnProps(s)))
          [] Tag(f) = "function" /\ f[2][1] = "ns" ->
                LET key == f[2][2]
                    sub == Get(At(h, s), key)
                IN  IF IsThrow(sub) THEN Thrown(h)
                    ELSE Bind(CallH(h, f[2][3], Undefined, <<sub>> \o rest),
                              LAMBDA inner :
                                IF IsThrow(inner.val) THEN Thrown(h)
                                ELSE Bind(Alloc(inner.heap,
                                                Spread(At(inner.heap, sub),
                                                       At(inner.heap, inner.val))),
                                          LAMBDA merged :
                                            Alloc(merged.heap,
                                                  Obj(key :> merged.val))))
          [] Tag(f) = "function" /\ f[2][1] # "ns" ->
                Bind(ApplyHandler(f[2], <<At(h, s)>> \o rest),
                     LAMBDA r : IF IsThrow(r) THEN Thrown(h) ELSE Alloc(h, r))
          [] OTHER -> Thrown(h)

\* The handler's partial result for the state st: what
\* this.handlers[action.type] returns when there is one, else {}.
PartH(h, this, st, action) ==
    LET inst == OwnProps(h[this[2]])
        act == OwnProps(h[action[2]])
        hd == Get(At(h, inst["handlers"]), act["type"][2])
    IN  IF Truthy(hd)
        THEN CallH(h, hd, inst["handlers"], <<st>> \o h[act["payload"][2]][2])
        ELSE Alloc(h, EmptyObj)

\* The state a call works on: this.initial when none is given.
StateH(h, this, st0) ==
    IF st0 = Undefined THEN OwnProps(h[this[2]])["initial"] ELSE st0

\* (a reducer that assigns the handler's result into the state it is given)
reducerHInPlace(h, this, st0, action) ==
    Bind(PartH(h, this, StateH(h, this, st0), action),
         LAMBDA part :
           IF IsThrow(part.val) THEN Thrown(h)
           ELSE [heap |-> [part.heap EXCEPT ![StateH(h, this, st0)[2]] =
                              Spread(At(part.heap, StateH(h, this, st0)),
                                     At(part.heap, part.val))],
                 val |-> StateH(h, this, st0)])

\* this.reducer(st0, action): reads the state, the action and
\* this.handlers, and returns a new spread object.
reducerH(h, this, st0, action) ==
    Bind(PartH(h, this, StateH(h, this, st0), action),
         LAMBDA part :
           IF IsThrow(part.val) THEN Thrown(h)
           ELSE Alloc(part.heap, Spread(At(part.heap, StateH(h, this, st0)),
                                        At(part.heap, part.val))))

\* new Red(initial, handlers): the instance keeps the two references it is
\* given and a new object of action creators.
NewRed(h, initial, handlers) ==
    Bind(Alloc(h, Obj([type \in Keys(At(h, handlers)) |->
                          Fn(<<"creator", type>>)])),
         LAMBDA acts :
           Alloc(acts.heap, Obj([initial |-> initial, handlers |-> handlers,
                                 actions |-> acts.val])))

handleH(h, this, handlers) ==
    Bind(Alloc(h, Spread(At(h, OwnProps(h[this[2]])["handlers"]),
                         At(h, handlers))),
         LAMBDA all : NewRed(all.heap, OwnProps(h[this[2]])["initial"], all.val))

withStateH(h, this, initial) ==
    Bind(Alloc(h, Spread(At(h, OwnProps(h[this[2]])["initial"]),
                         At(h, initial))),
         LAMBDA all : NewRed(all.heap, all.val, OwnProps(h[this[2]])["handlers"]))

mergeH(h, this, other) ==
    Bind(withStateH(h, this, OwnProps(h[other[2]])["initial"]),
         LAMBDA w : handleH(w.heap, w.val, OwnProps(h[other[2]])["handlers"]))

\* Object.assign(target, source) writes the object target refers to.
AssignH(h, target, source) ==
    [heap |-> [h EXCEPT ![target[2]] = Assign(h[target[2]], At(h, source))],
     val |-> target]

\* The elements of the set S in some order.
RECURSIVE SetToSeq(_)
SetToSeq(S) ==
    IF S = {} THEN <<>>
    ELSE LET x == CHOOSE x \in S : TRUE
         IN  <<x>> \o SetToSeq(S \ {x})

\* Object.entries(handlers).reduce((h, [type, f]) => Object.assign(h,
\* { [type]: wrapper }), acc): one new source object and one write of acc
\* per handler.
RECURSIVE AssignEach(_, _, _, _, _)
AssignEach(h, acc, key, handlers, types) ==
    IF types = <<>> THEN [heap |-> h, val |-> acc]
    ELSE Bind(Alloc(h, Obj(types[1] :>
                           Fn(<<"ns", key,
                                OwnProps(At(h, handlers))[types[1]]>>))),
              LAMBDA src :
                Bind(AssignH(src.heap, acc, src.val),
                     LAMBDA done :
                       AssignEach(done.heap, done.val, key, handlers,
                                  Tail(types))))

\* (a combine that accumulates the wrappers in the handlers object of the
\* Red it is given)
NamespacedHIntoGiven(h, key, handlers) ==
    AssignEach(h, handlers, key, handlers, SetToSeq(Keys(At(h, handlers))))

\* The wrappers of the Red under key, accumulated in a new object {}.
NamespacedH(h, key, handlers) ==
    Bind(Alloc(h, EmptyObj),
         LAMBDA acc : AssignEach(acc.heap, acc.val, key, handlers,
                                 SetToSeq(Keys(At(h, handlers)))))

\* One step of combine's reduce: acc.withState({ [key]: r.initial })
\* .handle(wrappers of r.handlers).
CombineStepH(h, acc, key, r) ==
    Bind(Alloc(h, Obj(key :> OwnProps(h[r[2]])["initial"])),
         LAMBDA lit :
           Bind(withStateH(lit.heap, acc, lit.val),
                LAMBDA w :
                  Bind(NamespacedH(w.heap, key, OwnProps(h[r[2]])["handlers"]),
                       LAMBDA ns : handleH(ns.heap, w.val, ns.val))))

RECURSIVE combineFromH(_, _, _)
combineFromH(h, acc, es) ==
    IF es = <<>> THEN [heap |-> h, val |-> acc]
    ELSE Bind(CombineStepH(h, acc, es[1][1], es[1][2]),
              LAMBDA hd : combineFromH(hd.heap, hd.val, Tail(es)))

\* new Red({}, {})
EmptyRed(h) ==
    Bind(Alloc(h, EmptyObj),
         LAMBDA i :
           Bind(Alloc(i.heap, EmptyObj),
                LAMBDA hs : NewRed(hs.heap, i.val, hs.val)))

combineH(h, reds) ==
    Bind(EmptyRed(h),
         LAMBDA start : combineFromH(start.heap, start.val, Entries(reds)))

Red_combineH(h, this, reds) ==
    Bind(combineH(h, reds), LAMBDA c : mergeH(c.heap, this, c.val))

\* red.withState(initial).handle(handlers), both given as literals.
ExampleH(h, root, initial, handlers) ==
    Bind(Alloc(h, initial),
         LAMBDA l1 :
           Bind(withStateH(l1.heap, root, l1.val),
                LAMBDA w :
                  Bind(Alloc(w.heap, handlers),
                       LAMBDA l2 : handleH(l2.heap, w.val, l2.val))))

\* The heap once the module and the documentation's two small examples
\* are evaluated: the exported root, inputApp and counterApp.
Loaded ==
    Bind(EmptyRed(<<>>),
         LAMBDA root :
           Bind(ExampleH(root.heap, root.val, Obj("input" :> Str("")),
                         Obj("setInput" :> Fn(<<"setArg", "input">>))),
                LAMBDA ia :
                  Bind(ExampleH(ia.heap, root.val, Obj("count" :> Num(0)),
                                Obj("increment" :> Fn(<<"inc", "count">>))),
                       LAMBDA ca :
                         [heap |-> ca.heap, red |-> root.val,
                          inputApp |-> ia.val, counterApp |-> ca.val])))

\* Arguments of the composition calls made by reference.
PartialsH == { Obj("count" :> Num(1)) }
HandlersH == { Obj("increment" :> Fn(<<"dec", "count">>)) }
ActionsH ==
    { Obj("setInput" :> Fn(<<"setArg", "input">>)
          @@ "decrement" :> Fn(<<"dec", "count">>)) }
OperandsH(c) == { Loaded.counterApp, c }
NamedRedsH(c) ==
    { << <<"ui", Loaded.inputApp>>, <<"counter", Loaded.counterApp>> >>,
      << <<"app", c>> >> }
NamedRedsOnH(c) ==
    { << <<"count", Loaded.inputApp>>, <<"counter", c>> >> }

\* The actions dispatched by reference: a registered kind, two built-ins
\* that return an object they were given, and one that throws.
DispatchedH ==
    { [type |-> "increment", payload |-> <<>>],
      [type |-> "valueOf", payload |-> <<>>],
      [type |-> "constructor", payload |-> <<>>],
      [type |-> "__proto__", payload |-> <<>>] }

InitH ==
    /\ heap = Loaded.heap
    /\ cur = Loaded.red
    /\ mounted = FALSE
    /\ state = Undefined
    /\ ops = 0
    /\ steps = 0
    /\ last = [op |-> "new", this |-> Undefined, arg |-> <<>>, reds |-> {},
               objs |-> {}, res |-> Loaded.red, before |-> <<>>]
    /\ origin = Undefined

\* cur = this.<op>(arg), called on the heap before, returning out; reds
\* are the Reds and objs the plain objects the call is given.
ComposedH(op, arg, reds, objs, before, out) ==
    /\ ~mounted
    /\ ops < MaxOps
    /\ heap' = out.heap
    /\ cur' = out.val
    /\ ops' = ops + 1
    /\ last' = [op |-> op, this |-> cur, arg |-> arg, reds |-> reds,
                objs |-> objs, res |-> out.val, before |-> before]
    /\ UNCHANGED <<mounted, state, steps, origin>>

WithStateH ==
    \E p \in PartialsH :
       \E lit \in {Alloc(heap, p)} :
          \E out \in {withStateH(lit.heap, cur, lit.val)} :
             ComposedH("withState", lit.val, {cur}, {lit.val}, lit.heap, out)

HandleH ==
    \E m \in HandlersH :
       \E lit \in {Alloc(heap, m)} :
          \E out \in {handleH(lit.heap, cur, lit.val)} :
             ComposedH("handle", lit.val, {cur}, {lit.val}, lit.heap, out)

WithActionsH ==
    \E m \in ActionsH :
       \E lit \in {Alloc(heap, m)} :
          \E out \in {handleH(lit.heap, cur, lit.val)} :
             ComposedH("withActions", lit.val, {cur}, {lit.val}, lit.heap, out)

MergeH ==
    \E o \in OperandsH(cur) :
       \E out \in {mergeH(heap, cur, o)} :
          ComposedH("merge", o, {cur, o}, {}, heap, out)

CombineH ==
    \E r \in NamedRedsH(cur) :
       \E out \in {combineH(heap, r)} :
          ComposedH("combine", r, {r[i][2] : i \in 1..Len(r)}, {}, heap, out)

RedCombineH ==
    \E r \in NamedRedsOnH(cur) :
       \E out \in {Red_combineH(heap, cur, r)} :
          ComposedH("this.combine", r, {cur} \cup {r[i][2] : i \in 1..Len(r)},
                    {}, heap, out)

\* The host takes cur.reducer and its first state: the object
\* cur.initial itself, or undefined; origin keeps what cur denotes then.
MountH ==
    /\ ~mounted
    /\ mounted' = TRUE
    /\ \E s0 \in {OwnProps(heap[cur[2]])["initial"], Undefined} : state' = s0
    /\ origin' = RedOf(heap, cur)
    /\ last' = [op |-> "mount", this |-> cur, arg |-> <<>>, reds |-> {cur},
                objs |-> {}, res |-> cur, before |-> heap]
    /\ UNCHANGED <<cur, ops, steps, heap>>

\* state = cur.reducer(state, { type, payload }): the host builds the
\* action object, then calls; a call that throws leaves its state.
ReduceH ==
    /\ mounted
    /\ steps < MaxSteps
    /\ \E a \in DispatchedH :
          \E arr \in {Alloc(heap, <<"array", a.payload>>)} :
          \E act \in {Alloc(arr.heap, Obj([type |-> Str(a.type),
                                           payload |-> arr.val]))} :
          \E out \in {reducerH(act.heap, cur, state, act.val)} :
              /\ heap' = out.heap
              /\ state' = IF IsThrow(out.val) THEN state ELSE out.val
              /\ last' = [op |-> "reducer", this |-> cur, reds |-> {cur},
                          objs |-> {act.val} \cup
                                   (IF state = Undefined THEN {} ELSE {state}),
                          arg |-> <<state, act.val>>,
                          res |-> out.val, before |-> act.heap]
    /\ steps' = steps + 1
    /\ UNCHANGED <<cur, mounted, ops, origin>>

NextH ==
    \/ WithStateH
    \/ HandleH
    \/ WithActionsH
    \/ MergeH
    \/ CombineH
    \/ RedCombineH
    \/ MountH
    \/ ReduceH

SpecHeap == InitH /\ [][NextH]_vars

\* ----------------------------------------------------------- properties

\* The state a reducer call works on: the one given, or the receiver's
\* initial when none was given.
GivenState(call) ==
    IF call.arg[1] = Undefined THEN call.this.initial ELSE call.arg[1]

IsReducerCall == last.op = "reducer"

\* o is an object whose fields are those of base overwritten by those of
\* over, and no others.
IsOverwrite(o, base, over) ==
    /\ IsObj(o)
    /\ Keys(o) = Keys(base) \cup Keys(over)
    /\ \A k \in Keys(over) : OwnProps(o)[k] = OwnProps(over)[k]
    /\ \A k \in Keys(base) \ Keys(over) : OwnProps(o)[k] = OwnProps(base)[k]

\* The states reached from b.initial by at most one dispatched action.
StatesOf(b) ==
    {b.initial} \cup
    { r \in {reducer(b, b.initial, a) : a \in Dispatched} : ~IsThrow(r) }

\* Two Red values cannot be told apart: equal initial, the same registered
\* kinds, and reducers that agree on every state and action tried,
\* including the call without a state.
SameBehaviour(b1, b2) ==
    /\ b1.initial = b2.initial
    /\ Keys(b1.handlers) = Keys(b2.handlers)
    /\ \A s \in {Undefined} \cup StatesOf(b1) \cup StatesOf(b2) :
          \A a \in Dispatched : reducer(b1, s, a) = reducer(b2, s, a)

\* C1: a reducer call whose kind is not a registered handler key returns
\* the given state unchanged and raises no error, whatever the kind.
C1_UnknownKindIsNoOp ==
    (IsReducerCall /\ last.arg[2].type \notin Keys(last.this.handlers))
        => last.res = GivenState(last)

\* C2: a reducer call whose kind is registered returns the given state
\* overwritten, field by field, by the handler's partial result: the
\* partial's fields take the handler's values, the other fields of the
\* state keep theirs, and no other field appears.
C2_RegisteredKindMerges ==
    (IsReducerCall /\ last.arg[2].type \in Keys(last.this.handlers))
        => LET st == GivenState(last)
               h == OwnProps(last.this.handlers)[last.arg[2].type]
               part == Call(h, last.this.handlers, <<st>> \o last.arg[2].payload)
           IN  /\ ~IsThrow(part)
               /\ IsOverwrite(last.res, st, part)
               /\ (h = Fn(<<"inc", "count">>) /\ st = Obj("count" :> Num(0)))
                     => last.res = Obj("count" :> Num(1))

\* C2 witness: a registered kind was reduced on a state with a field the
\* handler's result does not name, and the state changed.
C2_Witness ==
    /\ IsReducerCall
    /\ last.arg[2].type \in Keys(last.this.handlers)
    /\ IsObj(last.res)
    /\ last.res # GivenState(last)
    /\ LET st == GivenState(last)
           h == OwnProps(last.this.handlers)[last.arg[2].type]
           part == Call(h, last.this.handlers, <<st>> \o last.arg[2].payload)
       IN  /\ Keys(st) \ Keys(part) # {}
           /\ Keys(part) \cap Keys(st) # {}

\* C3: handle and withActions return a Red with the receiver's initial and
\* the receiver's handlers overwritten by the given mapping's; a second
\* handle that registers the same kinds again makes the first one's
\* handlers unreachable.
C3_HandleOverrides ==
    (last.op \in {"handle", "withActions"})
        => /\ last.res.initial = last.this.initial
           /\ IsOverwrite(last.res.handlers, last.this.handlers, last.arg)
           /\ \A h2 \in HandlerMaps :
                 Keys(last.arg) \subseteq Keys(h2)
                    => /\ handle(last.res, h2) = handle(last.this, h2)
                       /\ SameBehaviour(handle(last.res, h2),
                                        handle(last.this, h2))
                       /\ \A x \in Keys(h2) :
                             OwnProps(handle(last.res, h2).handlers)[x]
                                = OwnProps(h2)[x]

\* C3 witness: handle was given a kind the receiver had registered with a
\* different handler.
C3_Witness ==
    /\ last.op = "handle"
    /\ \E x \in Keys(last.arg) \cap Keys(last.this.handlers) :
          OwnProps(last.arg)[x] # OwnProps(last.this.handlers)[x]
    /\ Keys(last.this.handlers) \ Keys(last.arg) # {}

\* C4: withState returns a Red whose initial is the receiver's initial
\* overwritten by the given partial initial, with the receiver's handlers.
C4_WithStateMerges ==
    (last.op = "withState")
        => /\ IsOverwrite(last.res.initial, last.this.initial, last.arg)
           /\ last.res.handlers = last.this.handlers

\* C4 witness: withState was given a field the receiver's initial held
\* with another value, the receiver having handlers and another field.
C4_Witness ==
    /\ last.op = "withState"
    /\ \E k \in Keys(last.arg) \cap Keys(last.this.initial) :
          OwnProps(last.arg)[k] # OwnProps(last.this.initial)[k]
    /\ Keys(last.this.initial) \ Keys(last.arg) # {}
    /\ Keys(last.this.handlers) # {}

IsMergeCall == last.op = "merge"

\* C5: a.merge(b) is a.withState(b.initial).handle(b.handlers): equal
\* initial, equal registered kinds, reducers that agree.
C5_MergeIsSequence ==
    IsMergeCall
        => LET seq == handle(withState(last.this, last.arg.initial),
                             last.arg.handlers)
           IN  /\ last.res.initial = seq.initial
               /\ Keys(last.res.handlers) = Keys(seq.handlers)
               /\ SameBehaviour(last.res, seq)

\* C5 witness: two Reds that both hold state and handlers, and share a
\* field and a kind, were merged.
C5_Witness ==
    /\ IsMergeCall
    /\ Keys(last.this.initial) \cap Keys(last.arg.initial) # {}
    /\ Keys(last.this.handlers) \cap Keys(last.arg.handlers) # {}
    /\ last.this # last.arg

\* The host's state after the actions of seq, folded through b.reducer
\* from state s; a call that throws leaves the state as it was.
RECURSIVE Run(_, _, _)
Run(b, s, seq) ==
    IF seq = <<>> THEN s
    ELSE LET r == reducer(b, s, seq[1])
         IN  Run(b, IF IsThrow(r) THEN s ELSE r, Tail(seq))

\* The action sequences of at most two dispatched actions.
ActionSeqs == {<<>>} \cup {<<a>> : a \in Dispatched}
                \cup {<<a1, a2>> : a1, a2 \in Dispatched}

\* C6: merge is associative: with a.merge(b) just computed, for every c
\* the two groupings have equal initial and registered kinds, and their
\* reducers give the same state after every action sequence.
C6_MergeAssociative ==
    IsMergeCall
        => \A c \in Operands(last.res) :
              LET left == merge(last.res, c)
                  right == merge(last.this, merge(last.arg, c))
              IN  /\ left.initial = right.initial
                  /\ Keys(left.handlers) = Keys(right.handlers)
                  /\ \A seq \in ActionSeqs :
                        Run(left, left.initial, seq)
                            = Run(right, right.initial, seq)

\* C6 witness: the merged operands both hold state and handlers, with
\* disjoint fields and disjoint kinds.
C6_Witness ==
    /\ IsMergeCall
    /\ Keys(last.this.initial) # {} /\ Keys(last.arg.initial) # {}
    /\ Keys(last.this.handlers) # {} /\ Keys(last.arg.handlers) # {}
    /\ Keys(last.this.initial) \cap Keys(last.arg.initial) = {}
    /\ Keys(last.this.handlers) \cap Keys(last.arg.handlers) = {}

\* C7: the root red is a two-sided identity of merge: red.merge(b) and
\* b.merge(red) have b's initial and b's registered kinds and reduce as b
\* does, for the Red built so far and for every merge made with red.
C7_RootIsIdentity ==
    /\ ~mounted => /\ SameBehaviour(merge(red, cur), cur)
                   /\ SameBehaviour(merge(cur, red), cur)
    /\ (IsMergeCall /\ last.arg = red) => SameBehaviour(last.res, last.this)
    /\ (IsMergeCall /\ last.this = red) => SameBehaviour(last.res, last.arg)

\* C7 witness: a Red holding state and handlers was merged with the root.
C7_Witness ==
    /\ IsMergeCall
    /\ last.arg = red
    /\ Keys(last.this.initial) # {}
    /\ Keys(last.this.handlers) # {}

\* C8: in a.merge(b) the right operand wins: a shared field holds b's
\* value, a shared kind runs b's handler; the two orders of merging can
\* differ only when the operands share a field or a kind.
C8_RightOperandWins ==
    IsMergeCall
        => LET a == last.this
               b == last.arg
               m == last.res
           IN  /\ \A f \in Keys(a.initial) \cap Keys(b.initial) :
                     OwnProps(m.initial)[f] = OwnProps(b.initial)[f]
               /\ \A k \in Keys(a.handlers) \cap Keys(b.handlers) :
                     /\ OwnProps(m.handlers)[k] = OwnProps(b.handlers)[k]
                     /\ \A s \in StatesOf(m) : \A act \in Dispatched :
                           act.type = k =>
                             LET part == Call(OwnProps(b.handlers)[k], b.handlers,
                                              <<s>> \o act.payload)
                             IN  ~IsThrow(part)
                                   => IsOverwrite(reducer(m, s, act), s, part)
               /\ ~SameBehaviour(m, merge(b, a))
                     => \/ Keys(a.initial) \cap Keys(b.initial) # {}
                        \/ Keys(a.handlers) \cap Keys(b.handlers) # {}

\* C8 witness: the merged operands share a field with different values
\* and a kind with different handlers, and the two orders differ.
C8_Witness ==
    /\ IsMergeCall
    /\ \E f \in Keys(last.this.initial) \cap Keys(last.arg.initial) :
          OwnProps(last.this.initial)[f] # OwnProps(last.arg.initial)[f]
    /\ \E k \in Keys(last.this.handlers) \cap Keys(last.arg.handlers) :
          OwnProps(last.this.handlers)[k] # OwnProps(last.arg.handlers)[k]
    /\ ~SameBehaviour(last.res, merge(last.arg, last.this))

NoSharedKind(reds) ==
    \A i, j \in 1..Len(reds) :
        i # j => Keys(reds[i][2].handlers) \cap Keys(reds[j][2].handlers) = {}

\* The orderings of the sequence s.
Perms(s) ==
    LET n == Len(s)
        bij == {f \in [1..n -> 1..n] : \A i, j \in 1..n : f[i] = f[j] => i = j}
    IN  {[i \in 1..n |-> s[f[i]]] : f \in bij}

\* C11: when no kind is registered by two of the Reds given to combine,
\* the result does not depend on the order of the entries: every order of
\* insertion, and every order of processing, gives the same initial, the
\* same registered kinds and a reducer that agrees.
C11_CombineOrderFree ==
    (last.op = "combine" /\ NoSharedKind(last.arg))
        => /\ \A p \in Perms(last.arg) : SameBehaviour(last.res, combine(p))
           /\ \A p \in Perms(Entries(last.arg)) :
                 SameBehaviour(last.res, combineFrom(Red(EmptyObj, EmptyObj), p))

\* C11 witness: two Reds with state and handlers and no common kind were
\* combined.
C11_Witness ==
    /\ last.op = "combine"
    /\ Len(last.arg) = 2
    /\ NoSharedKind(last.arg)
    /\ \A i \in 1..2 : /\ Keys(last.arg[i][2].handlers) # {}
                        /\ Keys(last.arg[i][2].initial) # {}

\* Entry i of reds is processed by combine before entry j: canonical
\* numeric keys in ascending order, then the other keys as inserted.
ProcessedBefore(reds, i, j) ==
    LET ki == reds[i][1]
        kj == reds[j][1]
    IN  IF IsIndexKey(ki) /\ IsIndexKey(kj) THEN KeyIndex(ki) < KeyIndex(kj)
        ELSE IF IsIndexKey(ki) # IsIndexKey(kj) THEN IsIndexKey(ki)
        ELSE i < j

\* The reducer call recorded in last ran the handler that entry i of the
\* combined reds registers for the kind, on that entry's sub-state, and
\* changed no other field.
ActedOnOnly(reds, i) ==
    LET s == GivenState(last)
        act == last.arg[2]
        key == reds[i][1]
        sub == Get(s, key)
        part == Call(OwnProps(reds[i][2].handlers)[act.type],
                     reds[i][2].handlers, <<sub>> \o act.payload)
    IN  /\ ~IsThrow(part)
        /\ IsObj(last.res)
        /\ Keys(last.res) = Keys(s)
        /\ IsOverwrite(OwnProps(last.res)[key], sub, part)
        /\ \A k \in Keys(s) \ {key} : OwnProps(last.res)[k] = OwnProps(s)[k]

\* The entries of reds that register the kind of the action in last.
Registering(reds) ==
    {i \in 1..Len(reds) : last.arg[2].type \in Keys(reds[i][2].handlers)}

\* C12 (as stated): when a kind is registered under two namespaces of a
\* combined Red, the reducer runs only the handler of the namespace
\* inserted last in the mapping and updates only that sub-state.
C12_LastInsertedWins ==
    (IsReducerCall /\ origin.op = "combine")
        => \A i \in Registering(origin.arg) :
             (/\ Cardinality(Registering(origin.arg)) > 1
              /\ \A j \in Registering(origin.arg) : j <= i)
                => ActedOnOnly(origin.arg, i)

\* C12 (amended): when a kind is registered under two namespaces of a
\* combined Red, the reducer runs only the handler of the namespace
\* processed last, in the order of Object.entries (canonical numeric keys
\* ascending, then the other keys as inserted), and updates only that
\* sub-state.
C12_LastProcessedWins ==
    (IsReducerCall /\ origin.op = "combine")
        => \A i \in Registering(origin.arg) :
             (/\ Cardinality(Registering(origin.arg)) > 1
              /\ \A j \in Registering(origin.arg) \ {i} :
                    ProcessedBefore(origin.arg, j, i))
                => ActedOnOnly(origin.arg, i)

\* C12 witness: a kind registered under a namespace and under a numeric
\* key inserted after it was dispatched, and the sub-state of the
\* namespace inserted first changed.
C12_Witness ==
    /\ IsReducerCall
    /\ origin.op = "combine"
    /\ Len(origin.arg) = 2
    /\ Registering(origin.arg) = {1, 2}
    /\ IsIndexKey(origin.arg[2][1])
    /\ ~IsIndexKey(origin.arg[1][1])
    /\ IsObj(last.res)
    /\ OwnProps(last.res)[origin.arg[1][1]]
          # OwnProps(GivenState(last))[origin.arg[1][1]]

\* C13: every Red built from the root by the composition operations has
\* exactly one action creator per registered kind; the creator of a kind,
\* called with any arguments, returns exactly { type: kind, payload: the
\* arguments }, and the reducer gives the same result for the created
\* action as for that action written by hand.
C13_ActionsMatchHandlers ==
    /\ ~mounted
          => /\ Keys(cur.actions) = Keys(cur.handlers)
             /\ \A kind \in Keys(cur.actions) :
                   \A p \in Payloads :
                      Call(OwnProps(cur.actions)[kind], cur.actions, p)
                         = ActionObject(kind, p)
    /\ (IsReducerCall /\ last.arg[2].type \in Keys(cur.actions))
          => LET kind == last.arg[2].type
                 a == Call(OwnProps(cur.actions)[kind], cur.actions,
                           last.arg[2].payload)
             IN  reducer(cur, last.arg[1], ActionOf(a)) = last.res

\* C13 witness: a Red built by two compositions registers two kinds, and
\* the reducer was called with the action that one of its creators
\* returns for a non-empty argument list, changing the state.
C13_Witness ==
    /\ ops = 2
    /\ Cardinality(Keys(cur.actions)) >= 2
    /\ IsReducerCall
    /\ \E kind \in Keys(cur.actions) :
          /\ last.arg[2]
                = ActionOf(Call(OwnProps(cur.actions)[kind], cur.actions,
                                <<Str("b")>>))
          /\ last.arg[2].type = kind
    /\ last.res # GivenState(last)

\* C15: makeDispatchers returns exactly one entry per registered kind and
\* calls dispatch zero times while building; calling the entry of a kind
\* with any arguments calls dispatch exactly once, with exactly
\* { type: kind, payload: the arguments }.
C15_DispatchersForward ==
    /\ last.op = "useHook"
          => /\ Keys(last.res[2]) = Keys(last.this.handlers)
             /\ last.calls = <<>>
    /\ last.op = "dispatcher"
          => last.calls = <<ActionObject(last.arg[1], last.arg[2])>>

\* C15 witness: the dispatcher of one of two registered kinds was called
\* with a non-empty argument list, and the state changed.
C15_Witness ==
    /\ last.op = "dispatcher"
    /\ Cardinality(Keys(cur.handlers)) >= 2
    /\ last.arg[2] # <<>>
    /\ Len(last.calls) = 1
    /\ state # last.given
    /\ state = reducer(cur, last.given,
                       [type |-> last.arg[1], payload |-> last.arg[2]])

\* C17: a reducer call without a state behaves as the call with the
\* receiver's initial: the handler of a registered kind receives initial
\* and the result is initial overwritten by the handler's result; for an
\* unregistered kind the result equals initial.
C17_UndefinedStateIsInitial ==
    (IsReducerCall /\ last.arg[1] = Undefined)
        => LET b == last.this
               act == last.arg[2]
           IN  IF act.type \in Keys(b.handlers)
               THEN LET part == Call(OwnProps(b.handlers)[act.type], b.handlers,
                                     <<b.initial>> \o act.payload)
                    IN  /\ ~IsThrow(part)
                        /\ IsOverwrite(last.res, b.initial, part)
               ELSE last.res = b.initial

\* The part of C17 about registered kinds.
C17_RegisteredKindFromInitial ==
    (IsReducerCall /\ last.arg[1] = Undefined
        /\ last.arg[2].type \in Keys(last.this.handlers))
        => LET b == last.this
               act == last.arg[2]
               part == Call(OwnProps(b.handlers)[act.type], b.handlers,
                            <<b.initial>> \o act.payload)
           IN  /\ ~IsThrow(part)
               /\ IsOverwrite(last.res, b.initial, part)

\* The actions of seq whose kind b registers.
OwnActions(seq, b) == SelectSeq(seq, LAMBDA a : a.type \in Keys(b.handlers))

\* After the actions of seq, the state of the combined Red holds under
\* every key what the Red under that key reaches by its own actions of seq.
Projects(combined, reds, seq) ==
    LET final == Run(combined, combined.initial, seq)
    IN  \A i \in 1..Len(reds) :
          Get(final, reds[i][1])
             = Run(reds[i][2], reds[i][2].initial, OwnActions(seq, reds[i][2]))

\* C18: for a Red combined from Reds sharing no kind, and every sequence
\* of actions folded through its reducer from its initial, the field of
\* every key equals the fold of that key's Red over the actions of the
\* sequence whose kind it registers; actions of other kinds never change
\* the field.
C18_CombinedFoldProjects ==
    (last.op = "combine" /\ NoSharedKind(last.arg))
        => \A seq \in ActionSeqs : Projects(last.res, last.arg, seq)

\* C18 restricted to actions whose kind is no member of Object.prototype.
C18_ProjectsOwnKinds ==
    (last.op = "combine" /\ NoSharedKind(last.arg))
        => \A seq \in ActionSeqs :
             (\A n \in 1..Len(seq) : Get(EmptyObj, seq[n].type) = Undefined)
                => Projects(last.res, last.arg, seq)

C19_RootWitness ==
    /\ last.op = "this.combine"
    /\ last.this = red
    /\ Len(last.arg) = 2

\* The composition calls.
CompositionOps ==
    {"withState", "handle", "withActions", "merge", "combine", "this.combine"}

\* Every object that existed before the last call has the contents it
\* had.
HeapKept == \A a \in 1..Len(last.before) : heap[a] = last.before[a]

\* The Reds of reds (pairs of key and reference) as Red values.
NamedOf(h, reds) == [i \in 1..Len(reds) |-> <<reds[i][1], RedOf(h, reds[i][2])>>]

\* By reference and by value the composition calls return the same Red.
CompositionAgrees ==
    LET b == RedOf(last.before, last.this)
        r == RedOf(heap, last.res)
    IN  /\ last.op = "withState"
              => r = withState(b, Deref(last.before, last.arg))
        /\ last.op = "handle" => r = handle(b, Deref(last.before, last.arg))
        /\ last.op = "withActions"
              => r = withActions(b, Deref(last.before, last.arg))
        /\ last.op = "merge" => r = merge(b, RedOf(last.before, last.arg))
        /\ last.op = "combine" => r = combine(NamedOf(last.before, last.arg))
        /\ last.op = "this.combine"
              => r = Red_combine(b, NamedOf(last.before, last.arg))

\* C14: a composition call changes nothing that existed before it: the
\* receiver and every Red given denote the Red values they denoted (equal
\* initial, handlers and actions), every plain object given has its
\* contents, and the Red returned is a new instance, distinct from the
\* receiver and from every Red given.
C14_CompositionKeepsOperands ==
    last.op \in CompositionOps
        => /\ \A r \in last.reds : RedOf(heap, r) = RedOf(last.before, r)
           /\ \A o \in last.objs : Deref(heap, o) = Deref(last.before, o)
           /\ HeapKept
           /\ last.res[2] > Len(last.before)
           /\ last.res \notin last.reds

\* C14 witness: this.combine was called on a Red with state and handlers,
\* itself the result of a composition, with two Reds with handlers.
C14_Witness ==
    /\ last.op = "this.combine"
    /\ ops = 2
    /\ Keys(RedOf(last.before, last.this).initial) # {}
    /\ Keys(RedOf(last.before, last.this).handlers) # {}
    /\ Len(last.arg) = 2
    /\ \A i \in 1..2 : Keys(RedOf(last.before, last.arg[i][2]).handlers) # {}
    /\ CompositionAgrees

\* C16: a reducer call changes no object that existed before it (the
\* state, the action, the Red and its initial and handlers), returns a
\* new object, and its result is the function of the state and the
\* action that the Red had when it was mounted, whatever calls came
\* between.
C16_ReducerIsPure ==
    last.op = "reducer"
        => /\ HeapKept
           /\ \A o \in last.objs : Deref(heap, o) = Deref(last.before, o)
           /\ RedOf(heap, cur) = origin
           /\ ~IsThrow(last.res) => last.res[2] > Len(last.before)
           /\ Deref(heap, last.res)
                 = reducer(origin, Deref(last.before, last.arg[1]),
                           ActionOf(Deref(last.before, last.arg[2])))

\* C16 witness: the second reducer call on a combined Red ran a handler
\* and returned a state that differs from the one given.
C16_Witness ==
    /\ last.op = "reducer"
    /\ steps = 2
    /\ Keys(origin.handlers) # {}
    /\ last.arg[1] # Undefined
    /\ ~IsThrow(last.res)
    /\ Deref(heap, last.res) # Deref(last.before, last.arg[1])
    /\ \E k \in Keys(origin.initial) : IsObj(OwnProps(origin.initial)[k])

====
